---- MODULE Spec2Model ----
(***************************************************************************)
(* Model of the tpg tool (src/tools/tpg.rs): a register-driven Ethernet    *)
(* test packet generator.  Textual CTRL and DATA literals are parsed into  *)
(* 16-bit registers, decoded into generation options, and one frame is     *)
(* synthesized and handed to a raw link-layer channel.                     *)
(*                                                                         *)
(* Literals are sequences of one-character strings, registers are          *)
(* integers in 0..65535, frames are sequences of bytes.                    *)
(***************************************************************************)
EXTENDS Integers, Sequences, FiniteSets, TLC

(***************************************************************************)
(* Bounds of the model                                                     *)
(***************************************************************************)
\* number of distinct seeds the thread-local generator can start from
RngKeys == 4
\* how far above u16::MAX the numeric literals of the decode harness reach
MaxOverflow == 3

\* u16::MAX, the width of Reg
U16Max == 65535

(***************************************************************************)
(* Bit arithmetic on unsigned integers                                     *)
(***************************************************************************)
Shr(v, n) == v \div (2 ^ n)

Shl(v, n) == v * (2 ^ n)

RECURSIVE BitAnd(_, _)
BitAnd(a, b) ==
    IF a = 0 \/ b = 0 THEN 0
    ELSE (a % 2) * (b % 2) + 2 * BitAnd(a \div 2, b \div 2)

RECURSIVE BitOr(_, _)
BitOr(a, b) ==
    IF a = 0 THEN b
    ELSE IF b = 0 THEN a
    ELSE (IF a % 2 = 1 \/ b % 2 = 1 THEN 1 ELSE 0) + 2 * BitOr(a \div 2, b \div 2)

RECURSIVE BitXor(_, _)
BitXor(a, b) ==
    IF a = 0 THEN b
    ELSE IF b = 0 THEN a
    ELSE ((a + b) % 2) + 2 * BitXor(a \div 2, b \div 2)

AsU8(v) == v % 256

AsU16(v) == v % 65536

(***************************************************************************)
(* Results                                                                 *)
(***************************************************************************)
NoErr == [kind |-> "none", radix |-> 0, text |-> <<>>, cause |-> "none", try |-> <<>>]

Ok(v) == [ok |-> TRUE, val |-> v, err |-> NoErr]

Err(e) == [ok |-> FALSE, val |-> 0, err |-> e]

(***************************************************************************)
(* Text: characters, digits, formatting                                    *)
(***************************************************************************)
DigitChars == <<"0", "1", "2", "3", "4", "5", "6", "7", "8", "9",
                "a", "b", "c", "d", "e", "f">>

UpperChars == <<"0", "1", "2", "3", "4", "5", "6", "7", "8", "9",
                "A", "B", "C", "D", "E", "F">>

\* char::to_digit(radix): the value of c as a digit, or -1
ToDigit(c, radix) ==
    LET hits == {i \in 1..16 : DigitChars[i] = c \/ UpperChars[i] = c}
    IN  IF hits = {} THEN -1
        ELSE LET d == (CHOOSE i \in hits : TRUE) - 1
             IN  IF d < radix THEN d ELSE -1

\* str::replace(pat, ""): drop every occurrence of the character pat
RECURSIVE Remove(_, _)
Remove(s, pat) ==
    IF s = <<>> THEN <<>>
    ELSE IF Head(s) = pat THEN Remove(Tail(s), pat)
    ELSE <<Head(s)>> \o Remove(Tail(s), pat)

StartsWith(s, p) == Len(s) >= Len(p) /\ SubSeq(s, 1, Len(p)) = p

\* the digits of v in the given radix, lower case, no padding ({:x}, {:o}, {:b}, {})
RECURSIVE Digits(_, _)
Digits(v, radix) ==
    IF v < radix THEN <<DigitChars[v + 1]>>
    ELSE Digits(v \div radix, radix) \o <<DigitChars[(v % radix) + 1]>>

\* "0x{:x?}" of a u16
FormatHex(v) == <<"0", "x">> \o Digits(v, 16)

(***************************************************************************)
(* Reg                                                                     *)
(***************************************************************************)
\* u16::from_str_radix: accumulate digits, failing on an empty string, on a
\* character that is no digit of the radix, and on a value above u16::MAX
RECURSIVE Accumulate(_, _, _)
Accumulate(ds, radix, acc) ==
    IF ds = <<>> THEN Ok(acc)
    ELSE LET d == ToDigit(Head(ds), radix)
         IN  IF d < 0 THEN Err([NoErr EXCEPT !.cause = "InvalidDigit"])
             ELSE IF acc * radix + d > U16Max
                  THEN Err([NoErr EXCEPT !.cause = "PosOverflow"])
                  ELSE Accumulate(Tail(ds), radix, acc * radix + d)

FromStrRadix(src, radix) ==
    IF src = <<>> THEN Err([NoErr EXCEPT !.cause = "Empty"])
    ELSE IF Head(src) \in {"+", "-"} /\ Len(src) = 1
         THEN Err([NoErr EXCEPT !.cause = "InvalidDigit"])
    ELSE IF Head(src) = "+" THEN Accumulate(Tail(src), radix, 0)
    ELSE Accumulate(src, radix, 0)

\* <Reg as FromStr>::from_str
RegFromStr(s) ==
    LET sv    == Remove(Remove(s, "_"), "'")
        radix == IF StartsWith(sv, <<"0", "x">>) THEN 16
                 ELSE IF StartsWith(sv, <<"0", "o">>) THEN 8
                 ELSE IF StartsWith(sv, <<"0", "b">>) THEN 2
                 ELSE 10
        body  == IF radix = 10 THEN sv ELSE SubSeq(sv, 3, Len(sv))
        r     == FromStrRadix(body, radix)
    IN  IF r.ok THEN Ok(r.val)
        ELSE Err([kind |-> "literal", radix |-> radix, text |-> s,
                  cause |-> r.err.cause, try |-> <<>>])

\* Reg::nibble
nibble(bits, idx) == AsU8(BitAnd(Shr(bits, idx * 4), 15))

\* Reg::byte
byte(bits, idx) == AsU8(Shr(bits, idx * 8))

(***************************************************************************)
(* Ctrl                                                                    *)
(***************************************************************************)
\* CtrlFromStr testing bits 7..15 instead of bit 7 alone
CtrlFromStr_unmasked(s) ==
    LET r == RegFromStr(s)
    IN  IF ~r.ok THEN r
        ELSE IF Shr(r.val, 7) # 0
             THEN Err([kind |-> "reserved", radix |-> 0, text |-> s, cause |-> "none",
                       try |-> FormatHex(BitXor(r.val, Shl(1, 7)))])
             ELSE Ok(r.val)

\* <Ctrl as FromStr>::from_str
CtrlFromStr(s) ==
    LET r == RegFromStr(s)
    IN  IF ~r.ok THEN r
        ELSE IF BitAnd(Shr(r.val, 7), 1) # 0
             THEN Err([kind |-> "reserved", radix |-> 0, text |-> s, cause |-> "none",
                       try |-> FormatHex(BitXor(r.val, Shl(1, 7)))])
             ELSE Ok(r.val)

start(bits) == BitAnd(bits, Shl(1, 1)) # 0

enable(bits) == BitAnd(bits, Shl(1, 0)) # 0

\* should_run satisfied by either bit
should_run_either(bits) == enable(bits) \/ start(bits)

should_run(bits) == enable(bits) /\ start(bits)

\* mode with the two arms exchanged
mode_inverted(bits) == IF BitAnd(Shr(bits, 13), 1) = 0 THEN "Single" ELSE "Continuous"

mode(bits) == IF BitAnd(Shr(bits, 13), 1) = 0 THEN "Continuous" ELSE "Single"

FixedLens == <<64, 2048, 256, 4096, 1024, 1518, 9000>>

\* Ctrl::size
size(bits) ==
    LET p == BitAnd(Shr(bits, 4), 7)
    IN  IF p = 7 THEN [kind |-> "Random", len |-> 0]
        ELSE [kind |-> "Fixed", len |-> FixedLens[p + 1]]

IpgBitlens == <<48, 96, 960, 9600>>

\* Ctrl::ipgl
ipgl(bits) == IpgBitlens[BitAnd(Shr(bits, 10), 3) + 1]

\* ptype falling back to Random for the Debug pattern
ptype_substituting(bits) ==
    LET t == BitAnd(Shr(bits, 8), 3)
    IN  CASE t = 0 -> "Random"
          [] t = 1 -> "ByteInc"
          [] t = 2 -> "Predefined"
          [] t = 3 -> "Random"

\* Ctrl::ptype; "todo" stands for the todo!() panic of the Debug arm
ptype(bits) ==
    LET t == BitAnd(Shr(bits, 8), 3)
    IN  CASE t = 0 -> "Random"
          [] t = 1 -> "ByteInc"
          [] t = 2 -> "Predefined"
          [] t = 3 -> "todo"

\* is_jumbo with the threshold at 2048
is_jumbo_above_2048(sz) == IF sz.kind = "Fixed" THEN sz.len > 2048 ELSE FALSE

\* SizeOpt::is_jumbo
is_jumbo(sz) == IF sz.kind = "Fixed" THEN sz.len > 1518 ELSE FALSE

(***************************************************************************)
(* Data                                                                    *)
(***************************************************************************)
\* <Data as FromStr>::from_str
DataFromStr(s) == RegFromStr(s)

\* Data::default()
DataDefault == 0

MacAddr(a, b, c, d, e, f) == <<a, b, c, d, e, f>>

\* dest_addr reading the source's nibble
dest_addr_nibble2(bits) == MacAddr(0, 3, 25, 255, 255, BitOr(240, nibble(bits, 2)))

dest_addr(bits) == MacAddr(0, 3, 25, 255, 255, BitOr(240, nibble(bits, 3)))

src_addr(bits) == MacAddr(0, 3, 25, 255, 255, BitOr(240, nibble(bits, 2)))

\* frame_data reading the high byte
frame_data_high(bits) == byte(bits, 1)

frame_data(bits) == byte(bits, 0)

(***************************************************************************)
(* The thread-local generator                                              *)
(*                                                                         *)
(* rand::thread_rng() is a counter-based generator seeded from OS entropy: *)
(* the seed is a nondeterministic choice among RngKeys keys, and the n-th  *)
(* draw is a fixed function of the key and n.                              *)
(***************************************************************************)
NoRng == [key |-> -1, ctr |-> 0]

\* the word drawn in state r (below 2^31 for every counter a run reaches)
NextU32(r) == r.key * 7919 + r.ctr * 104729 + 12345

Advance(r, n) == [r EXCEPT !.ctr = r.ctr + n]

RandomLens == <<64, 256, 1024, 1518>>

\* [64_u16, 256, 1024, 1518].choose(&mut rng).unwrap()
choose(r) == RandomLens[(NextU32(r) % Len(RandomLens)) + 1]

\* rng.gen::<u8>() as the k-th draw from r (k = 0 is the next draw)
gen(r, k) == AsU8(NextU32(Advance(r, k)))

(***************************************************************************)
(* Frame synthesis                                                         *)
(***************************************************************************)
\* payload_size subtracting the header alone
payload_size_header(sz) == sz - 14

\* the payload_size closure: sz as usize - 18; a negative result stands for
\* the unsigned subtraction underflowing
payload_size(sz) == sz - 18

\* the header written through MutableEthernetPacket: destination, source,
\* then the 2-byte big-endian EtherType field carrying size as u16
header(sz, dbits) ==
    dest_addr(dbits) \o src_addr(dbits)
        \o <<Shr(AsU16(sz), 8), AsU8(AsU16(sz))>>

\* fill drawing the Predefined byte from the generator
fill_drawn(i, cbits, dbits, r) ==
    CASE ptype(cbits) = "Random"     -> gen(r, i)
      [] ptype(cbits) = "ByteInc"    -> AsU8(i)
      [] ptype(cbits) = "Predefined" -> gen(r, i)

\* the value stored at buf[14 + i] by the fill loop
fill(i, cbits, dbits, r) ==
    CASE ptype(cbits) = "Random"     -> gen(r, i)
      [] ptype(cbits) = "ByteInc"    -> AsU8(i)
      [] ptype(cbits) = "Predefined" -> frame_data(dbits)

\* packet_gen applied to a zeroed buffer of sz + 14 bytes
packet_gen(sz, cbits, dbits, r) ==
    header(sz, dbits) \o [i \in 1..sz |-> fill(i - 1, cbits, dbits, r)]

(***************************************************************************)
(* Inputs                                                                  *)
(***************************************************************************)
\* names datalink::interfaces() reports
Interfaces == {"veth1"}

IfNames == {"veth1", "eth9"}

\* every combination of the CTRL fields the program reads: enable, start,
\* size, reserved bit 7, packet type and mode
CtrlFields ==
    {en + 2 * st + 16 * sz + 128 * r7 + 256 * pt + 8192 * md :
        en \in 0..1, st \in 0..1, sz \in 0..7, r7 \in 0..1, pt \in 0..3, md \in 0..1}

\* values that also set bits the program ignores (IPGL, bits 2, 3, 12, 14, 15)
CtrlOthers == {65535, 65407, 65151, 3699}

CtrlValues == CtrlFields \cup CtrlOthers

\* other spellings <<value spelled or -1, literal>>: separators, binary, octal,
\* decimal, sign, upper case, and malformed text
CtrlSpellings ==
    { <<8819, <<"0", "x", "2", "2", "_", "7", "3">>>>,
      <<8819, <<"0", "x", "2", "2", "'", "7", "3">>>>,
      <<8819, <<"0", "_", "x", "2", "2", "7", "3">>>>,
      <<-1,   <<"0", "X", "2", "2", "7", "3">>>>,
      <<8947, <<"0", "x", "2", "2", "F", "3">>>>,
      <<8819, <<"0", "b">> \o Digits(8819, 2)>>,
      <<8819, <<"0", "o">> \o Digits(8819, 8)>>,
      <<8819, Digits(8819, 10)>>,
      <<8819, <<"+">> \o Digits(8819, 10)>>,
      <<-1,   <<"-", "1">>>>,
      <<128,  <<"0", "x", "8", "0">>>>,
      <<-1,   <<"0", "x">>>>,
      <<-1,   <<>>>>,
      <<-1,   <<"0", "x", "z", "z">>>>,
      <<-1,   Digits(65536, 10)>>,
      <<-1,   <<"0", "x">> \o Digits(65536 + 8819, 16)>> }

CtrlArgs == {<<v, FormatHex(v)>> : v \in CtrlValues} \cup CtrlSpellings

DataValues == {0, 2651}

DataSpellings ==
    { <<40789, <<"0", "b", "1", "0", "0", "1", "_", "1", "1", "1", "1", "_", "0">>
                   \o Digits(85, 2)>>,
      <<-1,    <<"0", "o", "9">>>> }

DataArgs == {<<d, FormatHex(d)>> : d \in DataValues} \cup DataSpellings

\* the arguments after argv[0]: IFNAME CTRL [DATA], any suffix possibly missing,
\* with the values the CTRL and DATA arguments spell
Invocations ==
    {[argv |-> <<>>, cval |-> -1, dval |-> -1]}
    \cup {[argv |-> <<n>>, cval |-> -1, dval |-> -1] : n \in IfNames}
    \cup {[argv |-> <<n, c[2]>>, cval |-> c[1], dval |-> -1] :
             n \in IfNames, c \in CtrlArgs}
    \cup {[argv |-> <<n, c[2], d[2]>>, cval |-> c[1], dval |-> d[1]] :
             n \in IfNames, c \in CtrlArgs, d \in DataArgs}

(***************************************************************************)
(* State                                                                   *)
(***************************************************************************)
VARIABLES
    argv,     \* the command line arguments
    cval,     \* the value the CTRL argument spells (-1: none, or no argument)
    dval,     \* the value the DATA argument spells (-1: none, or no argument)
    run,      \* "first" or "second" invocation on the same argv
    first,    \* the frames the first invocation handed to the transport
    pc,       \* position of main
    ctrl,     \* the decoded CTRL register (-1 before it is decoded)
    data,     \* the decoded DATA register (-1 before it is decoded)
    rng,      \* state of the thread-local generator
    psize,    \* `size`: the payload length (0 before it is computed)
    buf,      \* the frame buffer
    nsynth,   \* number of frames packet_gen has completed
    sent,     \* the buffers passed to tx.send_to, in order
    exit,     \* "running", "ok", "exit1", "exit2" or "panic"
    stderr,   \* the error reported on exit
    harg,     \* decoders alone: the argument, <<>> when absent, <<literal>> otherwise
    hval,     \* decoders alone: the value harg spells (-1 when it spells none)
    hpc,      \* decoders alone: which decoder has been applied ("off" in main)
    hres,     \* decoders alone: the Result of the decoder
    hopts     \* decoders alone: what the accessors return on the decoded register

mvars == <<argv, cval, dval, run, first, pc, ctrl, data, rng, psize, buf, nsynth, sent, exit, stderr>>

hvars == <<harg, hval, hpc, hres, hopts>>

vars == <<mvars, hvars>>

NoOpts == [should_run |-> FALSE, mode |-> "none", size |-> [kind |-> "none", len |-> 0],
           is_jumbo |-> FALSE, ipgl |-> 0, dest_addr |-> <<>>, src_addr |-> <<>>,
           frame_data |-> 0]

Off ==
    /\ harg = <<>>
    /\ hval = -1
    /\ hpc = "off"
    /\ hres = Ok(0)
    /\ hopts = NoOpts

Fresh ==
    /\ pc = "args"
    /\ ctrl = -1
    /\ data = -1
    /\ rng = NoRng
    /\ psize = 0
    /\ buf = <<>>
    /\ nsynth = 0
    /\ sent = <<>>
    /\ exit = "running"
    /\ stderr = NoErr

Init ==
    /\ \E inv \in Invocations :
          /\ argv = inv.argv
          /\ cval = inv.cval
          /\ dval = inv.dval
    /\ run = "first"
    /\ first = <<>>
    /\ Fresh
    /\ Off

Why(kind) == [NoErr EXCEPT !.kind = kind]

\* the process ends: its memory is gone, what it sent and reported remains
Terminate(code, err) ==
    /\ pc' = "done"
    /\ exit' = code
    /\ stderr' = err
    /\ rng' = NoRng
    /\ buf' = <<>>

\* std::env::args().nth(k): <<>> for None, <<s>> for Some(s)
Nth(args, k) == IF Len(args) >= k THEN <<args[k]>> ELSE <<>>

\* lines 237-241: the Result the match on CTRL sees
ParseCtrlArg(o) == IF o = <<>> THEN Err(Why("missing_ctrl")) ELSE CtrlFromStr(o[1])

\* lines 250-252: the Result the match on DATA sees, Data::default() when absent
ParseDataArg(o) == IF o = <<>> THEN Ok(DataDefault) ELSE DataFromStr(o[1])

\* lines 229-235
ParseIfname ==
    /\ pc = "args"
    /\ IF Nth(argv, 1) # <<>>
       THEN /\ pc' = "ctrl"
            /\ UNCHANGED <<exit, stderr, rng, buf>>
       ELSE Terminate("exit2", Why("missing_ifname"))
    /\ UNCHANGED <<argv, cval, dval, run, first, ctrl, data, psize, nsynth, sent>>
    /\ UNCHANGED hvars

\* lines 237-248
ParseCtrl ==
    /\ pc = "ctrl"
    /\ LET r == ParseCtrlArg(Nth(argv, 2))
       IN  IF r.ok
           THEN /\ ctrl' = r.val
                /\ pc' = "data"
                /\ UNCHANGED <<exit, stderr, rng, buf>>
           ELSE /\ Terminate("exit2", r.err)
                /\ UNCHANGED ctrl
    /\ UNCHANGED <<argv, cval, dval, run, first, data, psize, nsynth, sent>>
    /\ UNCHANGED hvars

\* lines 250-258
ParseData ==
    /\ pc = "data"
    /\ LET r == ParseDataArg(Nth(argv, 3))
       IN  IF r.ok
           THEN /\ data' = r.val
                /\ pc' = "should_run"
                /\ UNCHANGED <<exit, stderr, rng, buf>>
           ELSE /\ Terminate("exit2", r.err)
                /\ UNCHANGED data
    /\ UNCHANGED <<argv, cval, dval, run, first, ctrl, psize, nsynth, sent>>
    /\ UNCHANGED hvars

\* lines 260-266
CheckShouldRun ==
    /\ pc = "should_run"
    /\ IF should_run(ctrl)
       THEN /\ pc' = "interface"
            /\ UNCHANGED <<exit, stderr, rng, buf>>
       ELSE Terminate("exit1", Why("not_enabled_or_started"))
    /\ UNCHANGED <<argv, cval, dval, run, first, ctrl, data, psize, nsynth, sent>>
    /\ UNCHANGED hvars

\* lines 268-271
FindInterface ==
    /\ pc = "interface"
    /\ IF argv[1] \in Interfaces
       THEN /\ pc' = "mode"
            /\ UNCHANGED <<exit, stderr, rng, buf>>
       ELSE Terminate("panic", Why("interface_not_found"))
    /\ UNCHANGED <<argv, cval, dval, run, first, ctrl, data, psize, nsynth, sent>>
    /\ UNCHANGED hvars

\* lines 279-282
CheckMode ==
    /\ pc = "mode"
    /\ IF mode(ctrl) = "Single"
       THEN /\ pc' = "channel"
            /\ UNCHANGED <<exit, stderr, rng, buf>>
       ELSE Terminate("panic", Why("todo_continuous_mode"))
    /\ UNCHANGED <<argv, cval, dval, run, first, ctrl, data, psize, nsynth, sent>>
    /\ UNCHANGED hvars

\* lines 284-291: the transport yields an Ethernet channel, another channel
\* type, or an error
OpenChannel ==
    /\ pc = "channel"
    /\ \E res \in {"Ethernet", "Other", "Err"} :
          CASE res = "Ethernet" -> /\ pc' = "rng"
                                   /\ UNCHANGED <<exit, stderr, rng, buf>>
            [] res = "Other"    -> Terminate("panic", Why("unhandled_channel_type"))
            [] res = "Err"      -> Terminate("panic", Why("channel_error"))
    /\ UNCHANGED <<argv, cval, dval, run, first, ctrl, data, psize, nsynth, sent>>
    /\ UNCHANGED hvars

\* line 293
ThreadRng ==
    /\ pc = "rng"
    /\ \E k \in 0..(RngKeys - 1) : rng' = [key |-> k, ctr |-> 0]
    /\ pc' = "size"
    /\ UNCHANGED <<argv, cval, dval, run, first, ctrl, data, psize, buf, nsynth, sent, exit, stderr>>
    /\ UNCHANGED hvars

\* lines 295-309
ChooseSize ==
    /\ pc = "size"
    /\ LET so == size(ctrl)
       IN  IF so.kind = "Fixed"
           THEN /\ psize' = payload_size(so.len)
                /\ rng' = rng
           ELSE /\ psize' = payload_size(choose(rng))
                /\ rng' = Advance(rng, 1)
    /\ pc' = "synthesize"
    /\ UNCHANGED <<argv, cval, dval, run, first, ctrl, data, buf, nsynth, sent, exit, stderr>>
    /\ UNCHANGED hvars

\* lines 311-330: allocate the buffer and run packet_gen on it; the fill loop
\* evaluates ctrl.ptype() for every payload byte, so the Debug arm panics on
\* the first one
Synthesize ==
    /\ pc = "synthesize"
    /\ IF psize > 0 /\ ptype(ctrl) = "todo"
       THEN /\ Terminate("panic", Why("todo_debug_packet_type"))
            /\ UNCHANGED nsynth
       ELSE /\ buf' = packet_gen(psize, ctrl, data, rng)
            /\ rng' = IF ptype(ctrl) = "Random" THEN Advance(rng, psize) ELSE rng
            /\ nsynth' = nsynth + 1
            /\ pc' = "send"
            /\ UNCHANGED <<exit, stderr>>
    /\ UNCHANGED <<argv, cval, dval, run, first, ctrl, data, psize, sent>>
    /\ UNCHANGED hvars

\* line 346: send_to returns None, Some(Err) or Some(Ok); both unwraps panic
Send ==
    /\ pc = "send"
    /\ sent' = Append(sent, buf)
    /\ \E res \in {"Ok", "None", "Err"} :
          CASE res = "Ok"   -> Terminate("ok", NoErr)
            [] res = "None" -> Terminate("panic", Why("send_none"))
            [] res = "Err"  -> Terminate("panic", Why("send_error"))
    /\ UNCHANGED <<argv, cval, dval, run, first, ctrl, data, psize, nsynth>>
    /\ UNCHANGED hvars

\* the program is invoked a second time on the same arguments
Rerun ==
    /\ pc = "done"
    /\ run = "first"
    /\ run' = "second"
    /\ first' = sent
    /\ pc' = "args"
    /\ ctrl' = -1
    /\ data' = -1
    /\ psize' = 0
    /\ nsynth' = 0
    /\ sent' = <<>>
    /\ exit' = "running"
    /\ stderr' = NoErr
    /\ UNCHANGED <<argv, cval, dval, rng, buf>>
    /\ UNCHANGED hvars

Next ==
    \/ ParseIfname
    \/ ParseCtrl
    \/ ParseData
    \/ CheckShouldRun
    \/ FindInterface
    \/ CheckMode
    \/ OpenChannel
    \/ ThreadRng
    \/ ChooseSize
    \/ Synthesize
    \/ Send

Spec == Init /\ [][Next]_vars

\* two invocations on the same arguments
NextTwice ==
    \/ Next
    \/ Rerun

SpecTwice == Init /\ [][NextTwice]_vars

(***************************************************************************)
(* The decoders alone: Ctrl::from_str, Data::from_str and the accessors,   *)
(* applied to a literal of every 16-bit value                              *)
(***************************************************************************)
RegValues == 0..U16Max

\* values spelled in octal, binary and decimal as well
AltValues == {v \in RegValues : v % 97 = 0 \/ v % 128 = 127}

Prefix(radix) ==
    CASE radix = 16 -> <<"0", "x">>
      [] radix = 8  -> <<"0", "o">>
      [] radix = 2  -> <<"0", "b">>
      [] radix = 10 -> <<>>

Literal(v, radix) == Prefix(radix) \o Digits(v, radix)

InitDecode ==
    /\ argv = <<>>
    /\ cval = -1
    /\ dval = -1
    /\ run = "first"
    /\ first = <<>>
    /\ Fresh
    /\ hpc = "start"
    /\ hres = Ok(0)
    /\ hopts = NoOpts
    /\ \/ /\ hval \in 0..(U16Max + MaxOverflow)
          /\ harg = <<Literal(hval, 16)>>
       \/ /\ hval \in AltValues
          /\ \E radix \in {8, 2, 10} : harg = <<Literal(hval, radix)>>
       \/ \E s \in CtrlSpellings \cup DataSpellings :
             /\ hval = s[1]
             /\ harg = <<s[2]>>
       \/ /\ hval = -1
          /\ harg = <<>>

\* Ctrl::from_str on the argument, as main calls it
DecodeCtrl ==
    /\ hpc = "start"
    /\ hres' = ParseCtrlArg(harg)
    /\ hpc' = "ctrl"
    /\ UNCHANGED <<mvars, harg, hval, hopts>>

\* the accessors of a decoded Ctrl
CtrlAccessors ==
    /\ hpc = "ctrl"
    /\ hres.ok
    /\ hopts' = [NoOpts EXCEPT !.should_run = should_run(hres.val),
                               !.mode = mode(hres.val),
                               !.size = size(hres.val),
                               !.is_jumbo = is_jumbo(size(hres.val)),
                               !.ipgl = ipgl(hres.val)]
    /\ hpc' = "ctrl_opts"
    /\ UNCHANGED <<mvars, harg, hval, hres>>

\* Data::from_str on the argument, or Data::default(), as main calls it
DecodeData ==
    /\ hpc = "start"
    /\ hres' = ParseDataArg(harg)
    /\ hpc' = "data"
    /\ UNCHANGED <<mvars, harg, hval, hopts>>

\* the accessors of a decoded Data
DataAccessors ==
    /\ hpc = "data"
    /\ hres.ok
    /\ hopts' = [NoOpts EXCEPT !.dest_addr = dest_addr(hres.val),
                               !.src_addr = src_addr(hres.val),
                               !.frame_data = frame_data(hres.val)]
    /\ hpc' = "data_opts"
    /\ UNCHANGED <<mvars, harg, hval, hres>>

NextDecode ==
    \/ DecodeCtrl
    \/ CtrlAccessors
    \/ DecodeData
    \/ DataAccessors

SpecDecode == InitDecode /\ [][NextDecode]_vars

(***************************************************************************)
(* Properties                                                              *)
(*                                                                         *)
(* The properties read the CTRL and DATA fields off the values the         *)
(* arguments spell (cval, dval, hval) by plain arithmetic, not through the *)
(* decoders of the program.                                                *)
(***************************************************************************)
Field(v, lo, width) == (v \div (2 ^ lo)) % (2 ^ width)

\* positions of main between opening the channel and the end of the send
RunningPcs == {"rng", "size", "synthesize", "send"}

\* failures that are not CTRL's doing: a DATA literal that does not parse, an
\* interface that does not exist, a channel that cannot be opened
Foreign == {"literal", "interface_not_found", "unhandled_channel_type", "channel_error"}

CtrlGiven == Len(argv) >= 2

CtrlValid == CtrlGiven /\ cval # -1 /\ Field(cval, 7, 1) = 0

CtrlRuns == CtrlValid /\ Field(cval, 0, 1) = 1 /\ Field(cval, 1, 1) = 1

\* the DATA value in force: 0 when the argument is absent
DataInForce == IF Len(argv) >= 3 THEN dval ELSE 0

DocLens == <<64, 2048, 256, 4096, 1024, 1518, 9000>>

DocRandomLens == {64, 256, 1024, 1518}

\* the total lengths the documented table allows for size pattern p
DocTotals(p) == IF p = 7 THEN DocRandomLens ELSE {DocLens[p + 1]}

\* C1: a run whose CTRL argument is rejected (the literal does not parse, bit 7
\* is set, or enable and start are not both 1) never reaches the positions
\* between opening the channel and the send, synthesizes nothing, passes
\* nothing to the transport, and ends with exit status 1 or 2.
Thm_C1_RejectedCtrlSendsNothing ==
    (CtrlGiven /\ ~CtrlRuns) =>
        /\ pc \notin RunningPcs
        /\ nsynth = 0
        /\ sent = <<>>
        /\ exit \in {"running", "exit1", "exit2"}
        /\ pc = "done" => exit \in {"exit1", "exit2"}

Wit_C1_RejectedRunEnded ==
    /\ CtrlGiven
    /\ cval # -1
    /\ Field(cval, 7, 1) = 0
    /\ Field(cval, 0, 2) = 1
    /\ Len(argv) = 3
    /\ dval # -1
    /\ argv[1] \in Interfaces
    /\ pc = "done"
    /\ exit = "exit1"

\* C2: Ctrl::from_str on a literal of a 16-bit value v fails with the
\* reserved-bit error exactly when bit 7 of v is set; the value it then
\* suggests is v with bit 7 cleared; when bit 7 is clear it succeeds and the
\* register holds v.
Thm_C2_ReservedBitIffBit7 ==
    (hpc = "ctrl" /\ hval \in RegValues) =>
        /\ hres.ok <=> Field(hval, 7, 1) = 0
        /\ hres.ok => hres.val = hval
        /\ ~hres.ok =>
              /\ hres.err.kind = "reserved"
              /\ hres.err.try = <<"0", "x">> \o Digits(hval - 128, 16)

Wit_C2_ReservedBitReported ==
    /\ hpc = "ctrl"
    /\ hval = 65535
    /\ ~hres.ok
    /\ hres.err.kind = "reserved"

\* C3: in Single mode with a valid, enabled and started CTRL and a packet type
\* other than Debug, a run never synthesizes or sends more than one frame, is
\* over once the frame has been passed to the transport, and, unless DATA does
\* not parse or the transport yields no channel, ends having synthesized
\* exactly one frame and sent exactly that one.
Thm_C3_SingleSendsExactlyOne ==
    (CtrlRuns /\ Field(cval, 13, 1) = 1 /\ Field(cval, 8, 2) # 3) =>
        /\ nsynth <= 1
        /\ Len(sent) <= 1
        /\ Len(sent) = 1 => pc = "done"
        /\ (pc = "done" /\ stderr.kind \notin Foreign) =>
              /\ nsynth = 1
              /\ Len(sent) = 1
              /\ exit = "ok" \/ stderr.kind \in {"send_none", "send_error"}

Wit_C3_SingleRunEnded ==
    /\ CtrlRuns
    /\ Field(cval, 13, 1) = 1
    /\ Field(cval, 8, 2) = 0
    /\ pc = "done"
    /\ exit = "ok"
    /\ Len(sent) = 1
    /\ nsynth = 1

\* C4: in Continuous mode with a valid, enabled and started CTRL, a run that
\* ends without a failure of DATA or of the transport has entered Running and
\* has sent frames.
Cex_C4_ContinuousSends ==
    (CtrlRuns /\ Field(cval, 13, 1) = 0 /\ pc = "done" /\ stderr.kind \notin Foreign) =>
        /\ Len(sent) >= 1
        /\ nsynth >= 1

\* C5: every frame passed to the transport has a total length T the documented
\* table gives for the size pattern in CTRL bits 4..6 (one of 64, 256, 1024,
\* 1518 for pattern 7), T - 18 is not negative, the buffer is 14 + (T - 18)
\* bytes long and its big-endian length field, bytes 12 and 13, holds T - 18.
Thm_C5_FrameLengths ==
    \A k \in 1..Len(sent) :
        \E T \in DocTotals(Field(cval, 4, 3)) :
            /\ T - 18 >= 0
            /\ Len(sent[k]) = 14 + (T - 18)
            /\ sent[k][13] * 256 + sent[k][14] = T - 18
            /\ sent[k][13] \in 0..255
            /\ sent[k][14] \in 0..255

Wit_C5_LargestFrameSent ==
    /\ Field(cval, 4, 3) = 6
    /\ Len(sent) = 1
    /\ Len(sent[1]) = 8996
    /\ sent[1][13] * 256 + sent[1][14] = 8982

\* C6: for every 16-bit DATA value d, and for d = 0 when the DATA argument is
\* absent, both addresses start 00:03:19:FF:FF, the destination ends in
\* 0xF0 | ((d >> 12) & 0xF) and the source in 0xF0 | ((d >> 8) & 0xF).
Thm_C6_MacAddresses ==
    (hpc = "data_opts") =>
        LET d == IF harg = <<>> THEN 0 ELSE hval
        IN  /\ d \in RegValues
            /\ hopts.dest_addr = <<0, 3, 25, 255, 255, 240 + Field(d, 12, 4)>>
            /\ hopts.src_addr = <<0, 3, 25, 255, 255, 240 + Field(d, 8, 4)>>

Wit_C6_AddressesDecoded ==
    /\ hpc = "data_opts"
    /\ hval = 40789
    /\ hopts.dest_addr[6] = 249
    /\ hopts.src_addr[6] = 255

\* C7: in every frame passed to the transport, whatever its payload length N,
\* with packet type ByteIncrement the payload byte at offset i is i mod 256 for
\* all i in [0, N), and with packet type Predefined every payload byte is the
\* low byte of DATA.
Thm_C7_PayloadFill ==
    \A k \in 1..Len(sent) :
        LET f == sent[k]
            N == Len(f) - 14
        IN  /\ Field(cval, 8, 2) = 1 => \A i \in 0..(N - 1) : f[14 + i + 1] = i % 256
            /\ Field(cval, 8, 2) = 2 => \A i \in 0..(N - 1) : f[14 + i + 1] = DataInForce % 256

Wit_C7_LongByteIncrement ==
    /\ Field(cval, 8, 2) = 1
    /\ Len(sent) = 1
    /\ Len(sent[1]) = 8996
    /\ sent[1][14 + 300] = 43

\* C8: with a valid, enabled and started CTRL that selects the Debug packet
\* type, whatever the size pattern, no frame is completed or passed to the
\* transport and the run never ends well; unless DATA or the transport fails
\* first, it ends in an unimplemented-option panic, which in Single mode is the
\* one of the Debug packet type.
Thm_C8_DebugUnimplemented ==
    (CtrlRuns /\ Field(cval, 8, 2) = 3) =>
        /\ nsynth = 0
        /\ sent = <<>>
        /\ exit # "ok"
        /\ (pc = "done" /\ stderr.kind \notin Foreign) =>
              /\ exit = "panic"
              /\ stderr.kind \in {"todo_debug_packet_type", "todo_continuous_mode"}
              /\ Field(cval, 13, 1) = 1 => stderr.kind = "todo_debug_packet_type"

Wit_C8_DebugPanicked ==
    /\ CtrlRuns
    /\ Field(cval, 8, 2) = 3
    /\ Field(cval, 4, 3) = 7
    /\ pc = "done"
    /\ exit = "panic"
    /\ stderr.kind = "todo_debug_packet_type"

\* two invocations on the same arguments have both passed a frame on
BothSent == run = "second" /\ pc = "done" /\ Len(first) = 1 /\ Len(sent) = 1

\* C9 as stated: with packet type Predefined or ByteIncrement two runs on the
\* same (CTRL, DATA) send byte-identical frames, whatever the size policy.
Cex_C9_DeterministicAnySize ==
    (BothSent /\ Field(cval, 8, 2) \in {1, 2}) => first = sent

\* C9 amended: with packet type Predefined or ByteIncrement and a fixed size
\* policy (size pattern 0..6) two runs on the same (CTRL, DATA) send
\* byte-identical frames.
Thm_C9_DeterministicFixedSize ==
    (BothSent /\ Field(cval, 8, 2) \in {1, 2} /\ Field(cval, 4, 3) # 7) => first = sent

Wit_C9_TwoRunsSent ==
    /\ BothSent
    /\ Field(cval, 8, 2) = 2
    /\ Field(cval, 4, 3) = 5
    /\ dval = 2651
    /\ first = sent

\* C10 as stated: over the eight size patterns is_jumbo flags exactly the fixed
\* lengths 4096 and 9000.
Cex_C10_TwoJumboLengths ==
    (hpc = "ctrl_opts") =>
        (hopts.is_jumbo <=> Field(hval, 4, 3) \in {3, 6})

\* C10 amended: over the eight size patterns is_jumbo flags exactly the three
\* fixed lengths above 1518, namely 2048, 4096 and 9000 (patterns 1, 3, 6);
\* the other fixed lengths and the random policy (pattern 7) are not flagged.
Thm_C10_ThreeJumboLengths ==
    (hpc = "ctrl_opts") =>
        /\ hopts.is_jumbo <=> Field(hval, 4, 3) \in {1, 3, 6}
        /\ hopts.is_jumbo =>
              hopts.size.kind = "Fixed" /\ hopts.size.len \in {2048, 4096, 9000}
        /\ Field(hval, 4, 3) = 7 => hopts.size.kind = "Random"

Wit_C10_Jumbo2048 ==
    /\ hpc = "ctrl_opts"
    /\ Field(hval, 4, 3) = 1
    /\ hopts.size.len = 2048
    /\ hopts.is_jumbo

TypeOK ==
    /\ pc \in {"args", "ctrl", "data", "should_run", "interface", "mode", "channel",
               "rng", "size", "synthesize", "send", "done"}
    /\ exit \in {"running", "ok", "exit1", "exit2", "panic"}
    /\ ctrl \in -1..U16Max
    /\ data \in -1..U16Max
    /\ Len(sent) <= 1

====
